---- MODULE Spec2Model ----
(***************************************************************************)
(* Model of multipatch_analysis/modules/module.py: the AnalysisModule base *)
(* class (stage registry, staleness classifier job_summary, and the        *)
(* update / _run_job executor).                                            *)
(*                                                                         *)
(* The module is Python 2 code (print is a statement: there is no          *)
(* "from __future__ import print_function" in module.py).  Python raises   *)
(* NameError when a name that is neither a local, a module global nor a    *)
(* builtin is read, and UnboundLocalError when a local is read before it   *)
(* is assigned.  Exceptions are modelled as values: every call returns a   *)
(* record whose exc field is "none" for a normal return.                   *)
(***************************************************************************)
EXTENDS Integers, Sequences, FiniteSets, TLC

\* ------------------------------------------------------------------ bounds
MaxUnit == 2        \* work units (experiment ids) are 1..MaxUnit
MaxTime == 2        \* completion timestamps are 1..MaxTime
MaxLen  == 2        \* longest explicit experiment_ids list passed to update
MaxLimit == 1       \* largest limit passed to update
MaxWorkers == 1     \* largest explicit worker count passed to update
MaxDeps == 2        \* longest dependencies list a stage class declares

Units == 1..MaxUnit

\* ------------------------------------------------------- Python plumbing
None == {}
Some(x) == {x}
Val(o) == CHOOSE x \in o : TRUE

Return(v) == [exc |-> "none", name |-> "", val |-> v]
Raise(e, n) == [exc |-> e, name |-> n, val |-> <<>>]

\* The names module.py binds at module level (imports and the class).
ModuleGlobals == {"sys", "multiprocessing", "np", "OrderedDict", "toposort", "AnalysisModule"}

\* Reading a free (non-local) name inside a function body.
LookupGlobal(n) == IF n \in ModuleGlobals THEN Return(n) ELSE Raise("NameError", n)

Range(s) == {s[i] : i \in DOMAIN s}

Max(S) == CHOOSE x \in S : \A y \in S : y <= x
Min(S) == CHOOSE x \in S : \A y \in S : x <= y

RECURSIVE sorted(_)
\* sorted(list(set(...))): ascending
sorted(S) == IF S = {} THEN <<>> ELSE <<Min(S)>> \o sorted(S \ {Min(S)})

RECURSIVE reversed(_)
reversed(s) == IF s = <<>> THEN <<>> ELSE reversed(Tail(s)) \o <<Head(s)>>

\* sorted(lst, reverse=True) on a list of integers (duplicates kept)
RECURSIVE sorted_reverse(_)
sorted_reverse(s) ==
    IF s = <<>> THEN <<>>
    ELSE LET m == Max(Range(s))
             i == CHOOSE k \in DOMAIN s : s[k] = m /\ \A j \in DOMAIN s : s[j] = m => k <= j
         IN <<m>> \o sorted_reverse(SubSeq(s, 1, i - 1) \o SubSeq(s, i + 1, Len(s)))

\* ------------------------------------------------------- stage registry
Stages == {"A", "B", "C"}

\* class attribute `dependencies` of each AnalysisModule subclass
dependencies == [S \in Stages |->
                   CASE S = "A" -> <<>>
                     [] S = "B" -> <<"A">>
                     [] S = "C" -> <<"A", "B">>]

\* ------------------------------------------------------------------ state
VARIABLES
    store,   \* job store: store[S][u] = completion timestamp, 0 = no record
    clock,   \* current time of the job store
    ret      \* the last job_summary / update call and what it returned

vars == <<store, clock, ret>>

NoCall == [op |-> "none", stage |-> "", experiment_ids |-> None, limit |-> None,
           parallel |-> FALSE, workers |-> None, raise_exceptions |-> FALSE,
           failing |-> {}, exc |-> "none", name |-> "", finished |-> <<>>, invalid |-> <<>>,
           ready |-> <<>>, jobs |-> <<>>, events |-> <<>>,
           registry |-> dependencies, order |-> <<>>, cycle |-> <<>>,
           pre |-> [S \in Stages |-> [u \in Units |-> 0]]]

\* --------------------------------------------------- stage implementation
\* finished_jobs(): mapping unit -> completion timestamp of this stage
finished_jobs(S, st) == [u \in {v \in Units : st[S][v] # 0} |-> st[S][u]]

\* ---------------------------------------------------- staleness classifier
\* Lines 175-188, given the class whose dependencies are read.
dep_finished_of(S, st) ==
    LET deps == dependencies[S]
        \* jobs.setdefault(k, []).append(v), one pass per dependency
        jobs == [k \in UNION {DOMAIN finished_jobs(deps[i], st) : i \in DOMAIN deps} |->
                   LET has == {i \in DOMAIN deps : k \in DOMAIN finished_jobs(deps[i], st)}
                   IN [j \in 1..Cardinality(has) |->
                         LET i == CHOOSE x \in has : Cardinality({y \in has : y <= x}) = j
                         IN finished_jobs(deps[i], st)[k]]]
        kept == {k \in DOMAIN jobs : ~(Len(jobs[k]) < Len(deps))}
    IN [k \in kept |-> Max(Range(jobs[k]))]

\* dependent_finished_jobs(self): the body reads `cls`, which is not a
\* parameter of this method (the parameter is named self).
dependent_finished_jobs(S, st) ==
    LET cls == LookupGlobal("cls")
    IN IF cls.exc # "none" THEN cls
       ELSE Return(dep_finished_of(S, st))

\* The for loop of job_summary (lines 159-166) from position i on.
RECURSIVE classify(_, _, _, _, _, _, _)
classify(all_jobs, my_finished, dep_finished, i, finished, invalid, ready) ==
    IF i > Len(all_jobs)
    THEN Return([finished |-> finished, invalid |-> invalid, ready |-> ready])
    ELSE LET job == all_jobs[i]
         IN IF job \in DOMAIN my_finished
            THEN IF job \notin DOMAIN dep_finished
                 THEN classify(all_jobs, my_finished, dep_finished, i + 1,
                               finished, Append(invalid, job), ready)
                 ELSE \* `dep_finished[job] > date`: date is read as a free name
                      LET date == LookupGlobal("date")
                      IN IF date.exc # "none" THEN date
                         ELSE IF dep_finished[job] > date.val
                              THEN classify(all_jobs, my_finished, dep_finished, i + 1,
                                            finished, Append(invalid, job), ready)
                              ELSE classify(all_jobs, my_finished, dep_finished, i + 1,
                                            Append(finished, job), invalid, ready)
            ELSE classify(all_jobs, my_finished, dep_finished, i + 1,
                          finished, invalid, Append(ready, job))

job_summary(S, st) ==
    LET my_finished == finished_jobs(S, st)
        dep == dependent_finished_jobs(S, st)
    IN IF dep.exc # "none" THEN dep
       ELSE LET all_jobs == sorted(DOMAIN my_finished \cup DOMAIN dep.val)
            IN classify(all_jobs, my_finished, dep.val, 1, <<>>, <<>>, <<>>)

\* ----------------------------------------------------------------- executor
\* process_experiment(experiment_id, invalid) of a stage implementation: it
\* either raises (the units in `failing`) or stores the unit's result with
\* the completion timestamp `now`.
process_experiment(S, experiment_id, invalid, failing, st, now) ==
    IF experiment_id \in failing
    THEN [exc |-> "ProcessingError", store |-> st]
    ELSE [exc |-> "none", store |-> [st EXCEPT ![S][experiment_id] = now]]

\* drop_jobs(experiment_ids) of a stage implementation
drop_jobs(S, experiment_ids, st) ==
    [st EXCEPT ![S] = [u \in Units |-> IF u \in experiment_ids THEN 0 ELSE st[S][u]]]

\* A _run_job that swallows a job's exception without reporting it.
_run_job_silent(S, job, raise_exceptions, failing, st, now) ==
    LET experiment_id == job[1]
        invalid == job[2]
        job_index == job[3]
        n_jobs == job[4]
        started == << <<"print", "Processing", job_index, n_jobs, experiment_id>>,
                      <<"call", experiment_id, invalid>> >>
        p == process_experiment(S, experiment_id, invalid, failing, st, now)
    IN IF p.exc # "none"
       THEN IF raise_exceptions
            THEN [exc |-> p.exc, name |-> "", store |-> p.store,
                  events |-> started \o << <<"raise", experiment_id>> >>]
            ELSE [exc |-> "none", name |-> "", store |-> p.store,
                  events |-> started \o << <<"raise", experiment_id>> >>]
       ELSE [exc |-> "none", name |-> "", store |-> p.store,
             events |-> started \o << <<"return", experiment_id>>,
                                      <<"print", "Finished", job_index, n_jobs, experiment_id>> >>]

\* _run_job(job, raise_exceptions): job = <<experiment_id, invalid, job_index, n_jobs>>
_run_job(S, job, raise_exceptions, failing, st, now) ==
    LET experiment_id == job[1]
        invalid == job[2]
        job_index == job[3]
        n_jobs == job[4]
        started == << <<"print", "Processing", job_index, n_jobs, experiment_id>>,
                      <<"call", experiment_id, invalid>> >>
        p == process_experiment(S, experiment_id, invalid, failing, st, now)
    IN IF p.exc # "none"
       THEN IF raise_exceptions
            THEN [exc |-> p.exc, name |-> "", store |-> p.store,
                  events |-> started \o << <<"raise", experiment_id>> >>]
            ELSE [exc |-> "none", name |-> "", store |-> p.store,
                  events |-> started \o << <<"raise", experiment_id>>,
                                           <<"print", "Error processing", job_index, n_jobs, experiment_id>>,
                                           <<"excepthook", p.exc, experiment_id>> >>]
       ELSE [exc |-> "none", name |-> "", store |-> p.store,
             events |-> started \o << <<"return", experiment_id>>,
                                      <<"print", "Finished", job_index, n_jobs, experiment_id>> >>]

\* for job in jobs: cls._run_job(job, raise_exceptions=raise_exceptions)
RECURSIVE run_jobs(_, _, _, _, _, _, _)
run_jobs(S, jobs, i, raise_exceptions, failing, st, now) ==
    IF i > Len(jobs)
    THEN [exc |-> "none", name |-> "", store |-> st, events |-> <<>>]
    ELSE LET r == _run_job(S, jobs[i], raise_exceptions, failing, st, now)
         IN IF r.exc # "none" THEN r
            ELSE LET rest == run_jobs(S, jobs, i + 1, raise_exceptions, failing, r.store, now)
                 IN [rest EXCEPT !.events = r.events \o rest.events]

\* np.random.shuffle(lst): the order is given by the ranks in perm
RECURSIVE shuffle(_, _)
shuffle(lst, perm) ==
    IF lst = <<>> THEN <<>>
    ELSE LET i == CHOOSE k \in DOMAIN lst : \A j \in DOMAIN lst : perm[k] <= perm[j]
         IN <<lst[i]>> \o shuffle(SubSeq(lst, 1, i - 1) \o SubSeq(lst, i + 1, Len(lst)),
                                  SubSeq(perm, 1, i - 1) \o SubSeq(perm, i + 1, Len(perm)))

\* lst[:limit] for limit >= 0
truncate(lst, limit) == SubSeq(lst, 1, IF limit < Len(lst) THEN limit ELSE Len(lst))

\* Lines 67-72: the work-unit list and the binding of the local `invalid`.
\* bound = FALSE when the local `invalid` was never assigned.
select_ids(S, experiment_ids, limit, st, perm) ==
    IF experiment_ids = None
    THEN LET js == job_summary(S, st)
         IN IF js.exc # "none" THEN js
            ELSE LET all == sorted_reverse(js.val.invalid \o js.val.ready)
                     ids == IF limit # None
                            THEN truncate(shuffle(all, perm), Val(limit))
                            ELSE all
                 IN Return([ids |-> ids, bound |-> TRUE, invalid |-> js.val.invalid])
    ELSE Return([ids |-> Val(experiment_ids), bound |-> FALSE, invalid |-> <<>>])

\* Line 74: the list comprehension reads the local `invalid` once per element.
build_jobs(sel) ==
    IF sel.ids # <<>> /\ ~sel.bound
    THEN Raise("UnboundLocalError", "invalid")
    ELSE Return([i \in 1..Len(sel.ids) |->
                   <<sel.ids[i], sel.ids[i] \in Range(sel.invalid), i - 1, Len(sel.ids)>>])

\* pool.map(cls._run_job, jobs): every job runs through _run_job with the
\* default raise_exceptions=False; perm gives the order in which the workers
\* take the jobs.
pool_map(S, jobs, workers, failing, st, now, perm) ==
    IF workers # None /\ Val(workers) < 1
    THEN [exc |-> "ValueError", name |-> "", store |-> st, events |-> <<>>]
    ELSE run_jobs(S, shuffle(jobs, perm), 1, FALSE, failing, st, now)

\* A dispatch that first drops the stage's stored results (drop_all) and
\* then runs the jobs: what update must not do.
dispatch_after_drop_all(S, jobs, parallel, workers, raise_exceptions, failing, st, now, perm) ==
    IF parallel
    THEN pool_map(S, jobs, workers, failing, drop_jobs(S, Units, st), now, perm)
    ELSE run_jobs(S, jobs, 1, raise_exceptions, failing, drop_jobs(S, Units, st), now)

\* Lines 76-81: dispatch of the job list.
dispatch(S, jobs, parallel, workers, raise_exceptions, failing, st, now, perm) ==
    IF parallel
    THEN pool_map(S, jobs, workers, failing, st, now, perm)
    ELSE run_jobs(S, jobs, 1, raise_exceptions, failing, st, now)

\* ---------------------------------------------------------------- actions
RECURSIVE SeqsUpTo(_)
SeqsUpTo(n) == IF n = 0 THEN {<<>>} ELSE SeqsUpTo(n - 1) \cup [1..n -> Units]

\* The values a caller passes to update.
IdLists == {None} \cup {Some(s) : s \in SeqsUpTo(MaxLen)}
Limits == {None} \cup {Some(l) : l \in 0..MaxLimit}
Workers == {None} \cup {Some(w) : w \in 1..MaxWorkers}
\* Orders np.random.shuffle and the worker pool can produce, as ranks; long
\* enough for the longest list (a derived list has at most MaxUnit units).
PermLen == IF MaxLen > MaxUnit THEN MaxLen ELSE MaxUnit
Perms == {p \in [1..PermLen -> 1..PermLen] : \A i, j \in 1..PermLen : p[i] = p[j] => i = j}

Init ==
    /\ store = [S \in Stages |-> [u \in Units |-> 0]]
    /\ clock = 1
    /\ ret = NoCall

Tick ==
    /\ ret = NoCall
    /\ clock < MaxTime
    /\ clock' = clock + 1
    /\ UNCHANGED <<store, ret>>

\* A stage implementation processes one unit outside update (a direct
\* process_experiment call that succeeds).  The store changes only between
\* calls, so that ret always describes a call on the current store.
ProcessExperiment(S, u) ==
    /\ ret = NoCall
    /\ store' = process_experiment(S, u, FALSE, {}, store, clock).store
    /\ store' # store
    /\ UNCHANGED <<clock, ret>>

DropJobs(S, u) ==
    /\ ret = NoCall
    /\ store[S][u] # 0
    /\ store' = drop_jobs(S, {u}, store)
    /\ UNCHANGED <<clock, ret>>

\* The caller is done with the value the last call returned.
Discard ==
    /\ ret # NoCall
    /\ ret' = NoCall
    /\ UNCHANGED <<store, clock>>

JobSummary(S) ==
    /\ ret = NoCall
    /\ LET r == job_summary(S, store) IN
       ret' = [NoCall EXCEPT !.op = "job_summary", !.stage = S, !.pre = store,
                                !.exc = r.exc, !.name = r.name,
                                !.finished = IF r.exc = "none" THEN r.val.finished ELSE <<>>,
                                !.invalid = IF r.exc = "none" THEN r.val.invalid ELSE <<>>,
                                !.ready = IF r.exc = "none" THEN r.val.ready ELSE <<>>]
    /\ UNCHANGED <<store, clock>>

\* update(experiment_ids, limit, parallel, workers, raise_exceptions), lines 67-81.
\* An exception raised by a step ends the call there and reaches the caller.
Update(S, experiment_ids, limit, parallel, workers, raise_exceptions, failing) ==
    /\ ret = NoCall
    /\ \E perm \in Perms :
       \E sel \in {select_ids(S, experiment_ids, limit, store, perm)} :
       \E jobs \in {IF sel.exc # "none" THEN sel ELSE build_jobs(sel.val)} :
       \E run \in {IF jobs.exc # "none"
                   THEN [exc |-> jobs.exc, name |-> jobs.name, store |-> store, events |-> <<>>]
                   ELSE dispatch(S, jobs.val, parallel, workers, raise_exceptions, failing,
                                 store, clock, perm)} :
        /\ ret' = [NoCall EXCEPT !.op = "update", !.stage = S, !.pre = store,
                                 !.experiment_ids = experiment_ids, !.limit = limit,
                                 !.parallel = parallel, !.workers = workers,
                                 !.raise_exceptions = raise_exceptions,
                                 !.failing = failing,
                                 !.exc = run.exc, !.name = run.name,
                                 !.jobs = IF jobs.exc # "none" THEN <<>> ELSE jobs.val,
                                 !.events = run.events]
        /\ store' = run.store
        /\ UNCHANGED clock

\* update(experiment_ids, raise_exceptions=...): limit, parallel and workers
\* keep their defaults (None, False, None).
UpdateSequential(S, experiment_ids, raise_exceptions, failing) ==
    Update(S, experiment_ids, None, FALSE, None, raise_exceptions, failing)

Next ==
    \/ Tick
    \/ \E S \in Stages, u \in Units : ProcessExperiment(S, u)
    \/ \E S \in Stages, u \in Units : DropJobs(S, u)
    \/ Discard
    \/ \E S \in Stages : JobSummary(S)
    \/ ret = NoCall /\ \E S \in Stages, experiment_ids \in IdLists,
          raise_exceptions \in BOOLEAN, failing \in SUBSET Units :
            UpdateSequential(S, experiment_ids, raise_exceptions, failing)

\* The job store, the classifier, and update in sequential mode without limit.
Spec == Init /\ [][Next]_vars

\* update(experiment_ids, parallel=..., workers=..., raise_exceptions=...)
\* without limit; workers is read only when parallel is True.
UpdateDispatch(S, experiment_ids, parallel, workers, raise_exceptions, failing) ==
    /\ ~parallel => workers = None
    /\ Update(S, experiment_ids, None, parallel, workers, raise_exceptions, failing)

NextDispatch ==
    \/ Tick
    \/ \E S \in Stages, u \in Units : ProcessExperiment(S, u)
    \/ \E S \in Stages, u \in Units : DropJobs(S, u)
    \/ Discard
    \/ \E S \in Stages : JobSummary(S)
    \/ ret = NoCall /\ \E S \in Stages, experiment_ids \in IdLists, parallel \in BOOLEAN, workers \in Workers,
          raise_exceptions \in BOOLEAN, failing \in SUBSET Units :
            UpdateDispatch(S, experiment_ids, parallel, workers, raise_exceptions, failing)

\* The job store, the classifier, and update in both dispatch modes, without limit.
SpecDispatch == Init /\ [][NextDispatch]_vars

\* update(experiment_ids, limit=..., raise_exceptions=...) in sequential mode.
UpdateLimit(S, experiment_ids, limit, raise_exceptions, failing) ==
    /\ limit # None
    /\ Update(S, experiment_ids, limit, FALSE, None, raise_exceptions, failing)

NextLimit ==
    \/ Tick
    \/ \E S \in Stages, u \in Units : ProcessExperiment(S, u)
    \/ \E S \in Stages, u \in Units : DropJobs(S, u)
    \/ Discard
    \/ \E S \in Stages : JobSummary(S)
    \/ ret = NoCall /\ \E S \in Stages, experiment_ids \in IdLists, limit \in Limits,
          raise_exceptions \in BOOLEAN, failing \in SUBSET Units :
            UpdateLimit(S, experiment_ids, limit, raise_exceptions, failing)

\* The job store, the classifier, and update in sequential mode with a limit.
SpecLimit == Init /\ [][NextLimit]_vars

\* The job tuples _run_job can be handed: a unit, its invalid flag, its index
\* and the number of jobs of the batch.
Jobs ==
    {<<u, inv, i, n>> : u \in Units, inv \in BOOLEAN, i \in 0..(MaxLen - 1), n \in 1..MaxLen}

\* _run_job(job, raise_exceptions) called on its own, as a worker of the pool
\* calls it (line 78).
RunJob(S, job, raise_exceptions, failing) ==
    /\ ret = NoCall
    /\ job[3] < job[4]
    /\ \E r \in {_run_job(S, job, raise_exceptions, failing, store, clock)} :
        /\ ret' = [NoCall EXCEPT !.op = "_run_job", !.stage = S, !.pre = store,
                                 !.raise_exceptions = raise_exceptions,
                                 !.failing = failing, !.jobs = <<job>>,
                                 !.exc = r.exc, !.name = r.name, !.events = r.events]
        /\ store' = r.store
    /\ UNCHANGED clock

NextJobs ==
    \/ Tick
    \/ \E S \in Stages, u \in Units : ProcessExperiment(S, u)
    \/ \E S \in Stages, u \in Units : DropJobs(S, u)
    \/ Discard
    \/ ret = NoCall /\ \E S \in Stages, job \in Jobs, raise_exceptions \in BOOLEAN,
          failing \in SUBSET Units :
            RunJob(S, job, raise_exceptions, failing)
    \/ ret = NoCall /\ \E S \in Stages, experiment_ids \in IdLists, parallel \in BOOLEAN, workers \in Workers,
          raise_exceptions \in BOOLEAN, failing \in SUBSET Units :
            UpdateDispatch(S, experiment_ids, parallel, workers, raise_exceptions, failing)

\* The job store, single jobs run through _run_job, and update in both
\* dispatch modes.
SpecJobs == Init /\ [][NextJobs]_vars

\* ---------------------------------------------------------------- registry
\* The classes that can be listed in a `dependencies` attribute: the direct
\* subclasses of AnalysisModule (Stages) and "X", a class with a name that
\* AnalysisModule.__subclasses__() does not return.
StageNames == Stages \cup {"X"}

RECURSIVE DepListsUpTo(_)
DepListsUpTo(n) ==
    IF n = 0 THEN {<<>>}
    ELSE DepListsUpTo(n - 1)
         \cup {s \in [1..n -> StageNames] : \A i, j \in 1..n : s[i] = s[j] => i = j}

\* What the stage classes can declare: Registries[r][S] is S.dependencies.
Registries == [Stages -> DepListsUpTo(MaxDeps)]

\* The orders in which a set of classes is iterated (classes hash by their
\* address): a set is iterated in the order its members have in the sequence.
SetOrders ==
    {o \in [1..Cardinality(StageNames) -> StageNames] :
        \A i, j \in DOMAIN o : o[i] = o[j] => i = j}
IterSet(X, o) == SelectSeq(o, LAMBDA n : n \in X)

\* pyqtgraph.toposort, the loop `for n in nodes`: `seen` is one set shared by
\* all recursive calls, `stack` is the path from the starting node.
RECURSIVE toposort_nodes(_, _, _, _, _, _)
toposort_nodes(deps, nodes, i, seen, stack, srt) ==
    IF i > Len(nodes)
    THEN [exc |-> "none", name |-> "", val |-> srt, seen |-> seen]
    ELSE LET n == nodes[i]
         IN IF n \in Range(stack)
            THEN [exc |-> "Exception", name |-> "Cyclic dependency detected",
                  val |-> stack \o <<n>>, seen |-> seen]
            ELSE IF n \in seen
                 THEN toposort_nodes(deps, nodes, i + 1, seen, stack, srt)
                 ELSE LET sub == toposort_nodes(deps, deps[n], 1, seen \cup {n},
                                                stack \o <<n>>, <<>>)
                      IN IF sub.exc # "none" THEN sub
                         ELSE toposort_nodes(deps, nodes, i + 1, sub.seen, stack,
                                             srt \o sub.val \o <<n>>)

\* pyqtgraph.toposort(deps): a dependency that is no key of deps becomes a
\* node without dependencies; the starting nodes are the set of nodes that
\* no node depends on.
toposort(deps, o) ==
    LET listed == UNION {Range(deps[k]) : k \in DOMAIN deps}
        filled == [n \in DOMAIN deps \cup listed |->
                      IF n \in DOMAIN deps THEN deps[n] ELSE <<>>]
        nodes == IterSet(DOMAIN filled \ listed, o)
    IN toposort_nodes(filled, nodes, 1, {}, <<>>, <<>>)

\* An all_modules that hands toposort the classes without their
\* dependencies.
all_modules_without_dependencies(registry, o) ==
    LET deps == [c \in Stages |-> <<>>]
        t == toposort(deps, o)
    IN IF t.exc # "none" THEN t ELSE Return(t.val)

\* all_modules(): the names of the classes in the order toposort returns
all_modules(registry, o) ==
    LET deps == [c \in Stages |-> registry[c]]
        t == toposort(deps, o)
    IN IF t.exc # "none" THEN t ELSE Return(t.val)

AllModules(registry, o) ==
    /\ ret = NoCall
    /\ \E r \in {all_modules(registry, o)} :
       ret' = [NoCall EXCEPT !.op = "all_modules", !.registry = registry,
                                !.exc = r.exc, !.name = r.name,
                                !.order = IF r.exc = "none" THEN r.val ELSE <<>>,
                                !.cycle = IF r.exc = "none" THEN <<>> ELSE r.val]
    /\ UNCHANGED <<store, clock>>

\* Python values dependent_modules handles: a stage's name is a string, a
\* stage is a class.
Str(n) == [kind |-> "str", value |-> n]
Class(n) == [kind |-> "class", name |-> n]

\* obj.dependencies: a class has the attribute, a string has not.
getattr_dependencies(obj, registry) ==
    IF obj.kind = "class"
    THEN Return(registry[obj.name])
    ELSE Raise("AttributeError", "dependencies")

\* [mod for mod in mods if cls in mod.dependencies]: iterating the
\* OrderedDict `mods` yields its keys, items[i][1].
RECURSIVE dependents_from(_, _, _, _, _)
dependents_from(cls, items, i, registry, acc) ==
    IF i > Len(items) THEN Return(acc)
    ELSE LET mod == items[i][1]
             d == getattr_dependencies(mod, registry)
         IN IF d.exc # "none" THEN d
            ELSE dependents_from(cls, items, i + 1, registry,
                                 IF cls \in Range(d.val) THEN acc \o <<mod>> ELSE acc)

\* dependent_modules(): mods = cls.all_modules() maps name -> class
dependent_modules(cls, registry, o) ==
    LET mods == all_modules(registry, o)
    IN IF mods.exc # "none" THEN mods
       ELSE dependents_from(cls, [i \in DOMAIN mods.val |-> <<Str(mods.val[i]), Class(mods.val[i])>>],
                            1, registry, <<>>)

DependentModules(cls, registry, o) ==
    /\ ret = NoCall
    /\ \E r \in {dependent_modules(cls, registry, o)} :
       ret' = [NoCall EXCEPT !.op = "dependent_modules", !.stage = cls,
                                !.registry = registry,
                                !.exc = r.exc, !.name = r.name,
                                !.order = IF r.exc = "none" THEN r.val ELSE <<>>]
    /\ UNCHANGED <<store, clock>>

NextRegistry ==
    \/ Discard
    \/ ret = NoCall /\ \E registry \in Registries, o \in SetOrders : AllModules(registry, o)

\* all_modules over every declaration of dependencies the bounds allow.
SpecRegistry == Init /\ [][NextRegistry]_vars

\* update() with every argument at its default, lines 67-81: the exception
\* a step raises, or the result of the sequential loop.
update_dispatch(S, jobs, st, now) ==
    IF jobs.exc # "none"
    THEN [exc |-> jobs.exc, name |-> jobs.name, store |-> st, events |-> <<>>]
    ELSE dispatch(S, jobs.val, FALSE, None, FALSE, {}, st, now, <<>>)

update_build(S, sel, st, now) ==
    update_dispatch(S, IF sel.exc # "none" THEN sel ELSE build_jobs(sel.val), st, now)

update_defaults(S, st, now) ==
    update_build(S, select_ids(S, None, None, st, <<>>), st, now)

\* for mod in all_modules().values(): mod.update() -- one round over the
\* pipeline; an exception update raises ends the round and reaches the caller.
RECURSIVE update_each(_, _, _, _)
update_each(order, i, st, now) ==
    IF i > Len(order)
    THEN [exc |-> "none", name |-> "", store |-> st, events |-> <<>>]
    ELSE LET r == update_defaults(order[i], st, now)
         IN IF r.exc # "none" THEN r
            ELSE LET rest == update_each(order, i + 1, r.store, now)
                 IN [rest EXCEPT !.events = r.events \o rest.events]

\* One round of update over the stages of the pipeline, in all_modules order.
UpdateAll(o) ==
    /\ ret = NoCall
    /\ \E mods \in {all_modules(dependencies, o)} :
       \E r \in {IF mods.exc # "none"
                 THEN [exc |-> mods.exc, name |-> mods.name, store |-> store, events |-> <<>>]
                 ELSE update_each(mods.val, 1, store, clock)} :
        /\ ret' = [NoCall EXCEPT !.op = "update_all", !.pre = store,
                                 !.order = IF mods.exc = "none" THEN mods.val ELSE <<>>,
                                 !.exc = r.exc, !.name = r.name, !.events = r.events]
        /\ store' = r.store
    /\ UNCHANGED clock

NextPipeline ==
    \/ Tick
    \/ \E S \in Stages, u \in Units : ProcessExperiment(S, u)
    \/ \E S \in Stages, u \in Units : DropJobs(S, u)
    \/ Discard
    \/ \E o \in SetOrders : UpdateAll(o)

\* The job store and rounds of update over the whole pipeline.
SpecPipeline == Init /\ [][NextPipeline]_vars

NextDependents ==
    \/ Discard
    \/ ret = NoCall /\ \E cls \in Stages, registry \in Registries, o \in SetOrders :
            DependentModules(cls, registry, o)

\* dependent_modules over every declaration of dependencies the bounds allow.
SpecDependents == Init /\ [][NextDependents]_vars

\* ------------------------------------------------------------------ claims
\* What the claims speak about, read off the last call (ret) and the job
\* store as it was when the call was made (ret.pre).
Deps(S) == Range(dependencies[S])
HasRecord(S, u) == ret.pre[S][u] # 0
AllDepsHaveRecord(S, u) == \A d \in Deps(S) : HasRecord(d, u)
SomeDepNewer(S, u) == \E d \in Deps(S) : ret.pre[d][u] > ret.pre[S][u]
IsJobSummary == ret.op = "job_summary"
IsUpdate == ret.op = "update"
Returned == ret.exc = "none"
Finished == Range(ret.finished)
Invalid == Range(ret.invalid)
Ready == Range(ret.ready)

\* The staleness partition as the claims define it (units known to the stage
\* are those with a record in the stage or in one of its dependencies).
ClaimedInvalid(S) ==
    {u \in Units : HasRecord(S, u) /\ AllDepsHaveRecord(S, u) /\ SomeDepNewer(S, u)}
ClaimedReady(S) ==
    {u \in Units : ~HasRecord(S, u) /\ Deps(S) # {} /\ AllDepsHaveRecord(S, u)}

\* The units process_experiment was called for, in call order.
RECURSIVE Calls(_)
Calls(ev) ==
    IF ev = <<>> THEN <<>>
    ELSE (IF Head(ev)[1] = "call" THEN <<Head(ev)[2]>> ELSE <<>>) \o Calls(Tail(ev))

\* The call / return / raise events, in order.
RECURSIVE CallReturns(_)
CallReturns(ev) ==
    IF ev = <<>> THEN <<>>
    ELSE (IF Head(ev)[1] \in {"call", "return", "raise"} THEN <<Head(ev)>> ELSE <<>>)
         \o CallReturns(Tail(ev))

\* The work-unit list an update call is to select.
SelectedList ==
    IF ret.experiment_ids = None
    THEN reversed(sorted(ClaimedInvalid(ret.stage) \cup ClaimedReady(ret.stage)))
    ELSE Val(ret.experiment_ids)

FirstFailing(L) == Min({i \in DOMAIN L : L[i] \in ret.failing})

\* C1: for a stage with dependencies and a unit that the stage and all its
\* dependencies have a record for, job_summary puts the unit in invalid when
\* some dependency's record is strictly newer, and in finished otherwise.
C1_NewerDependencyInvalid ==
    (IsJobSummary /\ Deps(ret.stage) # {}) =>
        \A u \in Units :
            (HasRecord(ret.stage, u) /\ AllDepsHaveRecord(ret.stage, u)) =>
                /\ Returned
                /\ IF SomeDepNewer(ret.stage, u) THEN u \in Invalid ELSE u \in Finished

\* C2: for a stage with dependencies and a unit without a record of the
\* stage, job_summary puts the unit in ready exactly when every dependency
\* has a record for it, and in no set when some dependency lacks one.
C2_ReadyIffAllDependencies ==
    (IsJobSummary /\ Deps(ret.stage) # {}) =>
        \A u \in Units :
            ~HasRecord(ret.stage, u) =>
                /\ Returned
                /\ (u \in Ready) <=> AllDepsHaveRecord(ret.stage, u)
                /\ ~AllDepsHaveRecord(ret.stage, u) => u \notin Finished \cup Invalid \cup Ready

\* C3: for a stage without dependencies job_summary reports no unit invalid;
\* every unit with a record is finished, every known unit without one ready.
C3_NoDependenciesNeverInvalid ==
    (IsJobSummary /\ Deps(ret.stage) = {}) =>
        /\ Returned
        /\ Invalid = {}
        /\ \A u \in Units : HasRecord(ret.stage, u) => u \in Finished
        /\ \A u \in Finished \cup Invalid \cup Ready : ~HasRecord(ret.stage, u) => u \in Ready

\* C4: a unit that some dependency has no record for is in none of the three
\* sets job_summary returns, also when the stage itself has a record for it.
C4_MissingDependencyExcluded ==
    IsJobSummary =>
        \A u \in Units :
            ~AllDepsHaveRecord(ret.stage, u) =>
                /\ Returned
                /\ u \notin Finished \cup Invalid \cup Ready

\* C5: the three sets job_summary returns are pairwise disjoint, and every
\* unit in them has a record in the stage or in one of its dependencies.
C5_PartitionDisjoint ==
    IsJobSummary =>
        /\ Returned
        /\ Finished \cap Invalid = {}
        /\ Finished \cap Ready = {}
        /\ Invalid \cap Ready = {}
        /\ \A u \in Finished \cup Invalid \cup Ready :
               HasRecord(ret.stage, u) \/ \E d \in Deps(ret.stage) : HasRecord(d, u)

\* C6: update without a unit list and without a limit dispatches exactly the
\* invalid and ready units of the stage, in descending order of identifier.
C6_DispatchInvalidAndReady ==
    (IsUpdate /\ ret.experiment_ids = None /\ ret.limit = None) =>
        Calls(ret.events) = reversed(sorted(ClaimedInvalid(ret.stage) \cup ClaimedReady(ret.stage)))

\* C7: update builds one job per selected unit, in list order, with the
\* invalid flag of the unit, the position indices 0..n-1 and the count n,
\* for a derived list and for a list the caller supplies.
C7_OneJobPerUnit ==
    IsUpdate =>
        /\ Len(ret.jobs) = Len(SelectedList)
        /\ \A i \in DOMAIN ret.jobs :
               ret.jobs[i] = <<SelectedList[i], SelectedList[i] \in ClaimedInvalid(ret.stage),
                               i - 1, Len(SelectedList)>>

\* C8: in sequential mode process is invoked for the selected units one at a
\* time and in list order: every call has returned or raised before the next
\* call starts.  Under raise_exceptions the list ends at the first failure.
C8_SequentialInOrder ==
    (IsUpdate /\ ~ret.parallel) =>
        LET L == SelectedList
            stop == ret.raise_exceptions /\ \E i \in DOMAIN L : L[i] \in ret.failing
            expected == IF stop THEN SubSeq(L, 1, FirstFailing(L)) ELSE L
            cr == CallReturns(ret.events)
        IN /\ Calls(ret.events) = expected
           /\ Len(cr) = 2 * Len(expected)
           /\ \A i \in DOMAIN expected :
                  /\ cr[2 * i - 1][1] = "call" /\ cr[2 * i - 1][2] = expected[i]
                  /\ cr[2 * i][1] \in {"return", "raise"} /\ cr[2 * i][2] = expected[i]

\* C9: in sequential mode with raise_exceptions=True the first job whose
\* process call raises ends the batch: the exception reaches the caller of
\* update and no later job is started.
C9_AbortOnFirstFailure ==
    (IsUpdate /\ ~ret.parallel /\ ret.raise_exceptions
       /\ \E i \in DOMAIN SelectedList : SelectedList[i] \in ret.failing) =>
        /\ ret.exc = "ProcessingError"
        /\ Calls(ret.events) = SubSeq(SelectedList, 1, FirstFailing(SelectedList))

\* C10: in sequential mode with raise_exceptions=False every job of the list
\* is processed exactly once, whichever jobs raise, and update returns
\* normally.
C10_ContinuePastFailures ==
    (IsUpdate /\ ~ret.parallel /\ ~ret.raise_exceptions) =>
        /\ Returned
        /\ Calls(ret.events) = SelectedList

\* How often unit u occurs in the list L.
Occurrences(L, u) == Cardinality({i \in DOMAIN L : L[i] = u})

\* The units of the jobs update built, in job order.
JobUnits == [i \in DOMAIN ret.jobs |-> ret.jobs[i][1]]

\* The per-job outcomes (a job's process call returned or raised), in order.
RECURSIVE Outcomes(_)
Outcomes(ev) ==
    IF ev = <<>> THEN <<>>
    ELSE (IF Head(ev)[1] \in {"return", "raise"} THEN <<Head(ev)>> ELSE <<>>)
         \o Outcomes(Tail(ev))

\* The largest number of process calls in progress at the same time.
RECURSIVE MaxOpen(_, _, _)
MaxOpen(ev, open, best) ==
    IF ev = <<>> THEN best
    ELSE IF Head(ev)[1] = "call"
         THEN MaxOpen(Tail(ev), open + 1, Max({best, open + 1}))
         ELSE IF Head(ev)[1] \in {"return", "raise"}
              THEN MaxOpen(Tail(ev), open - 1, best)
              ELSE MaxOpen(Tail(ev), open, best)

\* The events of unit u, in order.
RECURSIVE SelectAll(_, _)
SelectAll(ev, u) ==
    IF ev = <<>> THEN <<>>
    ELSE (IF Head(ev)[1] \in {"call", "return", "raise"} /\ Head(ev)[2] = u
          THEN <<Head(ev)>> ELSE <<>>) \o SelectAll(Tail(ev), u)

\* C11: a parallel batch with raise_exceptions=False ends normally with one
\* outcome per job, whichever jobs fail and in whichever order the workers
\* run them: every selected unit has as many outcomes as jobs, at least
\* one, and its outcome is a failure exactly when its process call fails.
C11_ParallelOutcomePerJob ==
    (IsUpdate /\ ret.parallel /\ ~ret.raise_exceptions) =>
        LET out == Outcomes(ret.events)
        IN /\ Returned
           /\ Len(out) = Len(ret.jobs)
           /\ \A u \in Range(SelectedList) :
                  /\ Occurrences(JobUnits, u) >= 1
                  /\ Cardinality({i \in DOMAIN out : out[i][2] = u}) = Occurrences(JobUnits, u)
                  /\ \A i \in DOMAIN out :
                         out[i][2] = u => (out[i][1] = "raise" <=> u \in ret.failing)

\* C12: a parallel batch with raise_exceptions=True ends at the first
\* failure as a sequential batch does: the failure reaches the caller of
\* update and no process call starts after the first call that raised.
C12_ParallelAbort ==
    (IsUpdate /\ ret.parallel /\ ret.raise_exceptions
       /\ \E i \in DOMAIN SelectedList : SelectedList[i] \in ret.failing) =>
        LET ev == ret.events
        IN /\ ret.exc = "ProcessingError"
           /\ \E i \in DOMAIN ev : ev[i][1] = "raise"
           /\ \A i, j \in DOMAIN ev : (ev[i][1] = "raise" /\ ev[j][1] = "call") => j < i

\* C13: the unit list of a parallel update call is de-duplicated before
\* dispatch: every unit of the list gets exactly one job, also when the
\* caller names it twice, and no unit has two process calls in progress.
C13_DeduplicatedBeforeDispatch ==
    (IsUpdate /\ ret.parallel) =>
        /\ \A u \in Range(SelectedList) : Occurrences(JobUnits, u) = 1
        /\ \A u \in Units :
               MaxOpen(SelectAll(ret.events, u), 0, 0) <= 1

\* C14: a parallel batch with workers=W has at most W process calls in
\* progress at any time, and every job is processed exactly once: a unit is
\* called as often as it has jobs, and every selected unit at least once.
C14_AtMostWWorkers ==
    (IsUpdate /\ ret.parallel /\ ret.workers # None) =>
        /\ MaxOpen(ret.events, 0, 0) <= Val(ret.workers)
        /\ \A u \in Range(SelectedList) :
               /\ Occurrences(Calls(ret.events), u) >= 1
               /\ Occurrences(Calls(ret.events), u) = Occurrences(JobUnits, u)

\* C15: update without a unit list and with limit=L builds exactly
\* min(L, n) jobs, for distinct units of the n invalid and ready units of
\* the stage.
C15_LimitSelectsMin ==
    (IsUpdate /\ ret.experiment_ids = None /\ ret.limit # None) =>
        LET candidates == ClaimedInvalid(ret.stage) \cup ClaimedReady(ret.stage)
        IN /\ Len(JobUnits) = Min({Val(ret.limit), Cardinality(candidates)})
           /\ \A i, j \in DOMAIN JobUnits : JobUnits[i] = JobUnits[j] => i = j
           /\ Range(JobUnits) \subseteq candidates

\* The staleness partition of stage S as the claims define it, over the job
\* store st.
CompleteAt(S, st) == {u \in Units : \A d \in Deps(S) : st[d][u] # 0}
FinishedAt(S, st) ==
    {u \in CompleteAt(S, st) : st[S][u] # 0 /\ \A d \in Deps(S) : st[d][u] <= st[S][u]}
InvalidAt(S, st) ==
    {u \in CompleteAt(S, st) : st[S][u] # 0 /\ \E d \in Deps(S) : st[d][u] > st[S][u]}
ReadyAt(S, st) == {u \in CompleteAt(S, st) : st[S][u] = 0 /\ Deps(S) # {}}

\* C17: after a sequential update without unit list and limit in which no
\* selected job fails, the stage has no ready and no invalid unit left, and
\* its finished units are those finished before together with the units
\* that were ready or invalid (so that a second update finds nothing to do).
C17_UpdateIdempotent ==
    (IsUpdate /\ ~ret.parallel /\ ret.experiment_ids = None /\ ret.limit = None
       /\ ret.failing \cap Range(SelectedList) = {}) =>
        /\ ReadyAt(ret.stage, store) = {}
        /\ InvalidAt(ret.stage, store) = {}
        /\ FinishedAt(ret.stage, store) =
               FinishedAt(ret.stage, ret.pre) \cup ReadyAt(ret.stage, ret.pre)
                   \cup InvalidAt(ret.stage, ret.pre)

DirectDeps(r, S) == IF S \in DOMAIN r THEN Range(r[S]) ELSE {}
RECURSIVE Closure(_, _, _)
Closure(r, set, n) ==
    IF n = 0 THEN set
    ELSE Closure(r, set \cup UNION {DirectDeps(r, S) : S \in set}, n - 1)
TransDeps(r, S) == Closure(r, DirectDeps(r, S), Cardinality(StageNames))
OnCycle(r, S) == S \in TransDeps(r, S)
Cyclic(r) == \E S \in Stages : OnCycle(r, S)
AllRegistered(r) == \A S \in Stages : DirectDeps(r, S) \subseteq Stages
IsAllModules == ret.op = "all_modules"
Position(S) == CHOOSE i \in DOMAIN ret.order : ret.order[i] = S

IsDependentModules == ret.op = "dependent_modules"

\* C22: for a registered stage X (dependencies all registered, no cycle),
\* dependent_modules returns exactly the registered stages whose
\* dependencies list holds X, each once, and the empty list when there is
\* none.
C22_DirectDependents ==
    (IsDependentModules /\ AllRegistered(ret.registry) /\ ~Cyclic(ret.registry)) =>
        /\ Returned
        /\ \A i \in DOMAIN ret.order :
               /\ ret.order[i].kind = "class"
               /\ \A j \in DOMAIN ret.order : ret.order[i] = ret.order[j] => i = j
        /\ {ret.order[i].name : i \in DOMAIN ret.order} =
               {S \in Stages : ret.stage \in DirectDeps(ret.registry, S)}

IsRunJob == ret.op = "_run_job"

\* C23: no failure of a job is silent.  For every job whose process call
\* raised, run by update in either mode or by _run_job on its own, the job's
\* identity was printed and the cause reached the operator: either
\* sys.excepthook was called with the exception after an "Error processing"
\* line naming the job, or the exception itself left the call.
C23_FailureSurfaced ==
    (IsUpdate \/ IsRunJob) =>
        LET ev == ret.events
        IN \A i \in DOMAIN ev :
               ev[i][1] = "raise" =>
                   /\ \E j \in 1..(i - 1) : ev[j][1] = "print" /\ ev[j][5] = ev[i][2]
                   /\ \/ /\ i = Len(ev)
                         /\ ret.exc = "ProcessingError"
                      \/ /\ i + 2 <= Len(ev)
                         /\ ev[i + 1][1] = "print" /\ ev[i + 1][2] = "Error processing"
                         /\ ev[i + 1][5] = ev[i][2]
                         /\ ev[i + 2] = <<"excepthook", "ProcessingError", ev[i][2]>>

\* A job whose process call raised was run with raise_exceptions=False, and
\* the call ended normally.
C23_Witness ==
    /\ IsRunJob
    /\ ~ret.raise_exceptions
    /\ Returned
    /\ \E i \in DOMAIN ret.events : ret.events[i][1] = "raise"

\* C24: staleness follows re-runs over time.  Whenever job_summary(S) is
\* called in a state where S has a record for u and a dependency of S has
\* reprocessed u since (its record is later than S's), the call reports u
\* invalid; whenever it is called after S has reprocessed u in turn (S's
\* record is at least as late as every dependency's), it reports u finished.
C24_StalenessFollowsReruns ==
    [][(ret.op = "none" /\ ret'.op = "job_summary") =>
          LET S == ret'.stage
          IN \A u \in Units :
                (store[S][u] # 0 /\ Deps(S) # {} /\ \A d \in Deps(S) : store[d][u] # 0) =>
                    /\ ret'.exc = "none"
                    /\ IF \E d \in Deps(S) : store[d][u] > store[S][u]
                       THEN u \in Range(ret'.invalid)
                       ELSE u \in Range(ret'.finished)]_vars

IsUpdateAll == ret.op = "update_all"

\* C25: after one round of update (no unit list, no limit, no job failing)
\* over every stage in all_modules order, from any job store, no stage has an
\* invalid or a ready unit left, so that a further round finds nothing to do.
C25_PipelineConverges ==
    IsUpdateAll =>
        /\ Returned
        /\ \A S \in Stages : InvalidAt(S, store) = {} /\ ReadyAt(S, store) = {}

SameDirectRecords(S, st) ==
    {st2 \in [Stages -> [Units -> 0..MaxTime]] :
        \A T \in {S} \cup Deps(S) : st2[T] = st[T]}

====
